---- MODULE Spec2Model ----
(***************************************************************************)
(* Model of the AI player of the Randomrepository tic-tac-toe program:     *)
(* AI.get_possible_moves, AI.get_move and the recursive AI.minimax of      *)
(* src/players.py, run against the Board collaborator (module board, whose *)
(* source is not part of src/ and is modelled from its contract).          *)
(***************************************************************************)
EXTENDS Integers, Sequences, FiniteSets, TLC

\* ------------------------------------------------------------------ bounds

\* Side of the square board built by main() from the window and tile size.
Side == 3
\* Length of a completed line that check_win reports.
WinLen == 3
\* Marks placed on the board before the AI is asked for a move.
MaxMarks == 2
\* Largest search depth handed to get_move.
MaxDepth == 3
\* Deepest nesting of minimax calls that is followed; a search of depth
\* MaxDepth never nests deeper.
MaxStack == 3
\* Largest branch factor handed to get_move besides the defaults.
MaxBranch == 2
\* float('inf') of minimax's default bounds: larger than any static score.
Inf == 1000
\* Default branch_factor of minimax, used when the argument is not passed.
DefaultBranchFactor == 10
\* Default branch_factor of get_move.
GetMoveBranchFactor == 20

\* ------------------------------------------------------------------ values

Marks == {"O", "X"}
Empty == "_"
Coords == 0..(Side - 1)
Pos == Coords \X Coords

\* Row-major scan order of get_possible_moves: tile_y outer, tile_x inner.
RECURSIVE ScanFrom(_)
ScanFrom(k) ==
    IF k >= Side * Side THEN <<>>
    ELSE <<<<k % Side, k \div Side>>>> \o ScanFrom(k + 1)

ScanOrder == ScanFrom(0)

Other(m) == IF m = "X" THEN "O" ELSE "X"

\* ------------------------------------------------------------------ lists

\* Python's seq[:stop] for any integer stop.
PyTo(seq, stop) ==
    LET n == Len(seq)
        e == IF stop < 0 THEN (IF n + stop < 0 THEN 0 ELSE n + stop)
             ELSE (IF stop > n THEN n ELSE stop)
    IN  SubSeq(seq, 1, e)

\* Python's seq[start:] for any integer start.
PyFrom(seq, start) ==
    LET n == Len(seq)
        s == IF start < 0 THEN (IF n + start < 0 THEN 0 ELSE n + start)
             ELSE (IF start > n THEN n ELSE start)
    IN  SubSeq(seq, s + 1, n)

\* A candidate is <<<<score_X, score_O>>, <<tile_x, tile_y, mark>>>>.
\* Component k = 1 is the score for X (the minimizer), k = 2 the score for O.
Key(c, k) == c[1][k]
Fav(c, k) == IF k = 1 THEN c[1][1] < 0 ELSE c[1][2] > 0
CellOf(mv) == <<mv[1], mv[2]>>

\* [c for c in seq if c favours side k]
RECURSIVE FavFilter(_, _)
FavFilter(seq, k) ==
    IF seq = <<>> THEN <<>>
    ELSE (IF Fav(Head(seq), k) THEN <<Head(seq)>> ELSE <<>>) \o FavFilter(Tail(seq), k)

\* Insert e after every entry whose key is <= its own: equal keys keep their
\* original order, as in Python's sorted.
RECURSIVE InsertStable(_, _, _)
InsertStable(e, sorted, k) ==
    IF sorted = <<>> THEN <<e>>
    ELSE IF Key(Head(sorted), k) <= Key(e, k)
         THEN <<Head(sorted)>> \o InsertStable(e, Tail(sorted), k)
         ELSE <<e>> \o sorted

\* sorted(seq, key=component k)
RECURSIVE SortedBy(_, _)
SortedBy(seq, k) ==
    IF seq = <<>> THEN <<>>
    ELSE InsertStable(seq[Len(seq)], SortedBy(SubSeq(seq, 1, Len(seq) - 1), k), k)

\* ------------------------------------------------------------------ Board
\* The board collaborator: tiles holds each cell's mark, logic each cell's
\* pair of heuristic values (get_value_mark('X'), get_value_mark('O')).

check_legal(t, mv) == CellOf(mv) \in Pos /\ t[CellOf(mv)] = Empty

\* The cells next to each cell, in any of the eight directions.
Adjacent ==
    [p \in Pos |->
        {q \in Pos : q # p /\ q[1] - p[1] \in {-1, 0, 1} /\ q[2] - p[2] \in {-1, 0, 1}}]

Neighbours(p) == Adjacent[p]

\* Heuristic pair of a cell: a claimed cell is worth nothing to either side;
\* an open cell is worth -1 to X per adjacent X and +1 to O per adjacent O.
CellValue(t, p) ==
    IF t[p] # Empty THEN <<0, 0>>
    ELSE <<0 - Cardinality({q \in Neighbours(p) : t[q] = "X"}),
           Cardinality({q \in Neighbours(p) : t[q] = "O"})>>

\* The cells whose state a move at mv changes: the cell itself and its open
\* neighbours, in scan order.
RECURSIVE AffectedIn(_, _, _)
AffectedIn(t, mv, order) ==
    IF order = <<>> THEN <<>>
    ELSE LET p == Head(order)
             hit == p = CellOf(mv) \/ (p \in Neighbours(CellOf(mv)) /\ t[p] = Empty)
         IN  (IF hit THEN <<p>> ELSE <<>>) \o AffectedIn(t, mv, Tail(order))

\* board.update_board(move, graphic=False): the board after the move and the
\* record orig_states of <<cell, previous state>> for every changed cell.
update_board(t, l, mv) ==
    LET cells == AffectedIn(t, mv, ScanOrder)
        t2 == [t EXCEPT ![CellOf(mv)] = mv[3]]
        changed == {cells[i] : i \in 1..Len(cells)}
    IN  [tiles |-> t2,
         logic |-> [p \in Pos |-> IF p \in changed THEN CellValue(t2, p) ELSE l[p]],
         orig_states |-> [i \in 1..Len(cells) |-> <<cells[i], l[cells[i]]>>]]

\* board.undo_change(orig_states, move): put back every recorded cell state
\* and clear the cell of the move.
undo_change(t, l, orig_states, mv) ==
    LET idx(p) == CHOOSE i \in 1..Len(orig_states) : orig_states[i][1] = p
        rec == {orig_states[i][1] : i \in 1..Len(orig_states)}
    IN  [tiles |-> [t EXCEPT ![CellOf(mv)] = Empty],
         logic |-> [p \in Pos |-> IF p \in rec THEN orig_states[idx(p)][2] ELSE l[p]]]

Directions == {<<1, 0>>, <<0, 1>>, <<1, 1>>, <<1, -1>>}

\* board.check_win(move)[0]: the mark of the move fills a line of WinLen
\* cells through the cell of the move.
check_win(t, mv) ==
    \E d \in Directions : \E k \in 0..(WinLen - 1) :
        \A j \in 0..(WinLen - 1) :
            LET q == <<mv[1] + (j - k) * d[1], mv[2] + (j - k) * d[2]>>
            IN  q \in Pos /\ t[q] = mv[3]

RECURSIVE SumValues(_, _)
SumValues(l, order) ==
    IF order = <<>> THEN 0
    ELSE l[Head(order)][1] + l[Head(order)][2] + SumValues(l, Tail(order))

\* Board.score_board(board): static evaluation of the whole position.
score_board(l) == SumValues(l, ScanOrder)

\* ------------------------------------------------------------------ AI

\* The scan of get_possible_moves: legal cells with a non-zero score.
RECURSIVE ScanMoves(_, _, _, _)
ScanMoves(t, l, mark, order) ==
    IF order = <<>> THEN <<>>
    ELSE LET p == Head(order)
             mv == <<p[1], p[2], mark>>
             keep == check_legal(t, mv) /\ (l[p][1] # 0 \/ l[p][2] # 0)
         IN  (IF keep THEN <<<<l[p], mv>>>> ELSE <<>>) \o ScanMoves(t, l, mark, Tail(order))

\* AI.get_possible_moves(board, maximizer) -> (x_fav, o_fav)
get_possible_moves(t, l, maximizer) ==
    LET mark == IF maximizer THEN "O" ELSE "X"
        possible_moves == ScanMoves(t, l, mark, ScanOrder)
    IN  <<SortedBy(FavFilter(possible_moves, 1), 1),
          SortedBy(FavFilter(possible_moves, 2), 2)>>

\* poss_x[:branch_factor//2] and poss_o[-branch_factor//2:]; the unary minus
\* binds tighter than //, so the second start is (-branch_factor)//2.
CapX(poss_x, branch_factor) == PyTo(poss_x, branch_factor \div 2)
CapO(poss_o, branch_factor) == PyFrom(poss_o, (0 - branch_factor) \div 2)

\* The move ordering of minimax from the two capped lists.
Ordering(maximizer, poss_x, poss_o) ==
    IF maximizer
    THEN PyFrom(poss_o, Len(poss_o) \div 2) \o PyTo(poss_x, Len(poss_x) \div 2)
         \o PyTo(poss_o, Len(poss_o) \div 2) \o PyFrom(poss_x, Len(poss_o) \div 2)
    ELSE PyTo(poss_x, Len(poss_x) \div 2) \o PyFrom(poss_o, Len(poss_o) \div 2)
         \o PyFrom(poss_x, Len(poss_x) \div 2) \o PyTo(poss_o, Len(poss_o) \div 2)

\* FreshMoves reading the recorded previous state of each cell instead of the
\* board after the move.
FreshMovesStale(l, orig_states, nxt_mark) ==
    [i \in 1..Len(orig_states) |->
        LET p == orig_states[i][1]
        IN  <<orig_states[i][2], <<p[1], p[2], nxt_mark>>>>]

\* new_poss_moves of the loop body: one entry per cell of orig_states, read
\* from the board after the move, for the next mark.
FreshMoves(l, orig_states, nxt_mark) ==
    [i \in 1..Len(orig_states) |->
        LET p == orig_states[i][1]
        IN  <<l[p], <<p[1], p[2], nxt_mark>>>>]

\* Relabel without the test poss[1] != move.
RECURSIVE RelabelKeepAll(_, _, _)
RelabelKeepAll(seq, move, nxt_mark) ==
    IF seq = <<>> THEN <<>>
    ELSE LET c == Head(seq)
         IN  <<<<c[1], <<c[2][1], c[2][2], nxt_mark>>>>>> \o RelabelKeepAll(Tail(seq), move, nxt_mark)

\* for poss in sorted(...) if poss[1] != move, relabelled with nxt_mark.
RECURSIVE Relabel(_, _, _)
Relabel(seq, move, nxt_mark) ==
    IF seq = <<>> THEN <<>>
    ELSE LET c == Head(seq)
         IN  (IF c[2] # move THEN <<<<c[1], <<c[2][1], c[2][2], nxt_mark>>>>>> ELSE <<>>)
             \o Relabel(Tail(seq), move, nxt_mark)

\* The pair (x_fav, o_fav) handed to the next ply.
NextPossMoves(l, orig_states, poss_x, poss_o, move, nxt_mark) ==
    LET fresh == FreshMoves(l, orig_states, nxt_mark)
    IN  <<Relabel(SortedBy(poss_x \o FavFilter(fresh, 1), 1), move, nxt_mark),
          Relabel(SortedBy(poss_o \o FavFilter(fresh, 2), 2), move, nxt_mark)>>

\* The branch factor of the next ply: the recursive call passes none, so the
\* callee runs with minimax's default.
RecursiveBranchFactor(branch_factor) == DefaultBranchFactor

\* The depth of the next ply.
RecursiveDepth(depth) == depth - 1

\* WinScore with the two infinities swapped.
WinScoreSwapped(maximizer) == IF maximizer THEN 0 - Inf ELSE Inf

\* The score of a move that completes a win.
WinScore(maximizer) == IF maximizer THEN Inf ELSE 0 - Inf

\* Cutoff testing each side against its own bound instead of the opponent's.
CutoffOwnBound(maximizer, score, max_worst, min_worst) ==
    IF maximizer THEN score > max_worst ELSE score < min_worst

\* The cutoff test after a candidate's score is known.
Cutoff(maximizer, score, max_worst, min_worst) ==
    IF maximizer THEN score > min_worst ELSE score < max_worst

\* The running bounds after a candidate that did not cut off.
NewMaxWorst(maximizer, score, max_worst) ==
    IF maximizer /\ score > max_worst THEN score ELSE max_worst

NewMinWorst(maximizer, score, min_worst) ==
    IF ~maximizer /\ score < min_worst THEN score ELSE min_worst

\* Extremal with max and min exchanged.
ExtremalSwapped(maximizer, choices) ==
    LET best(i) == \A j \in 1..Len(choices) :
                       IF maximizer THEN choices[j][2] >= choices[i][2]
                       ELSE choices[j][2] <= choices[i][2]
        first == CHOOSE i \in 1..Len(choices) :
                     best(i) /\ \A j \in 1..(i - 1) : ~best(j)
    IN  choices[first]

\* max(choices, key=score) / min(choices, key=score): the first entry with
\* the extremal score.
Extremal(maximizer, choices) ==
    LET best(i) == \A j \in 1..Len(choices) :
                       IF maximizer THEN choices[j][2] <= choices[i][2]
                       ELSE choices[j][2] >= choices[i][2]
        first == CHOOSE i \in 1..Len(choices) :
                     best(i) /\ \A j \in 1..(i - 1) : ~best(j)
    IN  choices[first]

\* ------------------------------------------------------------------ state

VARIABLES
    tiles,                 \* board.tiles: the mark of every cell
    logic,                 \* board.logic: the heuristic pair of every cell
    win,                   \* main's win flag: a placed mark completed a line
    mark,                  \* the AI's self.mark
    depth,                 \* the AI's minimax_depth, passed to get_move
    branch_factor,         \* the AI's branch_factor, passed to get_move
    minimax_stack_depth,   \* the AI's counter of moves applied in the search
    stack,                 \* the activation records of minimax, root first
    pc,                    \* "idle", "search", "done" or "raised"
    result,                \* the (move, score) returned by the root minimax
    entry,                 \* the board when get_move was entered
    calls,                 \* recursive minimax calls made by this search
    cuts                   \* loops of this search ended by a break

vars == <<tiles, logic, win, mark, depth, branch_factor, minimax_stack_depth,
          stack, pc, result, entry, calls, cuts>>

NoMove == <<0 - 1, 0 - 1, Empty>>
NoResult == <<NoMove, 0>>
Board == [tiles |-> tiles, logic |-> logic]

\* The activation record of one minimax call after lines 92-103: the capped
\* lists, the move ordering and an empty choices list.  entry remembers the
\* board the call was entered with, sub_entry the board the last returned
\* recursive call was entered with.
NewFrame(maximizer, d, bf, poss_moves, max_worst, min_worst, board) ==
    LET poss_x == CapX(poss_moves[1], bf)
        poss_o == CapO(poss_moves[2], bf)
    IN  [maximizer |-> maximizer, depth |-> d, branch_factor |-> bf,
         poss_moves |-> poss_moves, poss_x |-> poss_x, poss_o |-> poss_o,
         poss |-> Ordering(maximizer, poss_x, poss_o),
         i |-> 0, brk |-> FALSE, choices |-> <<>>,
         max_worst |-> max_worst, min_worst |-> min_worst,
         move |-> NoMove, orig_states |-> <<>>, pc |-> "loop", ret |-> 0,
         entry |-> board, sub_entry |-> board]

Top == stack[Len(stack)]
Searching == pc = "search" /\ stack # <<>>
HasNext(f) == f.pc = "loop" /\ ~f.brk /\ f.i < Len(f.poss)
NextMove(f) == f.poss[f.i + 1][2]
MarksPlaced == Cardinality({p \in Pos : tiles[p] # Empty})

Depths == 1..MaxDepth
BranchFactors == (1..MaxBranch) \cup {GetMoveBranchFactor}
\* Values of depth and branch_factor that are no valid configuration.
NonPositive == {0, 0 - 1}

Init ==
    /\ tiles = [p \in Pos |-> Empty]
    /\ logic = [p \in Pos |-> <<0, 0>>]
    /\ win = FALSE
    /\ mark \in Marks
    /\ depth \in Depths
    /\ branch_factor \in BranchFactors
    /\ minimax_stack_depth = 0
    /\ stack = <<>>
    /\ pc = "idle"
    /\ result = NoResult
    /\ entry = [tiles |-> tiles, logic |-> logic]
    /\ calls = 0
    /\ cuts = 0

\* The AI was constructed with a depth or a branch factor that is not positive.
InitMisconfigured ==
    /\ tiles = [p \in Pos |-> Empty]
    /\ logic = [p \in Pos |-> <<0, 0>>]
    /\ win = FALSE
    /\ mark \in Marks
    /\ \/ depth = 0 /\ branch_factor = GetMoveBranchFactor
       \/ depth \in Depths /\ branch_factor \in NonPositive
    /\ minimax_stack_depth = 0
    /\ stack = <<>>
    /\ pc = "idle"
    /\ result = NoResult
    /\ entry = [tiles |-> tiles, logic |-> logic]
    /\ calls = 0
    /\ cuts = 0

\* ------------------------------------------------------------------ actions

SetBoard(b) == tiles' = b.tiles /\ logic' = b.logic

\* main(): a player's legal move is applied to the board and checked for a
\* win; either mark may be placed next.
PlaceMark ==
    /\ pc = "idle" /\ ~win /\ MarksPlaced < MaxMarks
    /\ \E p \in Pos, m \in Marks :
          LET mv == <<p[1], p[2], m>>
              ub == update_board(tiles, logic, mv)
          IN  /\ check_legal(tiles, mv)
              /\ SetBoard(ub)
              /\ win' = check_win(ub.tiles, mv)
    /\ UNCHANGED <<mark, depth, branch_factor, minimax_stack_depth, stack, pc,
                   result, entry, calls, cuts>>

\* The root call made by get_move on board b: maximizer is self.mark == 'O',
\* the lists of get_possible_moves are capped once here and again by minimax.
RootFrame(b) ==
    LET maximizer == mark = "O"
        got == get_possible_moves(b.tiles, b.logic, maximizer)
        poss_x == CapX(got[1], branch_factor)
        poss_o == CapO(got[2], branch_factor)
    IN  NewFrame(maximizer, depth, branch_factor, <<poss_x, poss_o>>, 0 - Inf, Inf, b)

\* AI.get_move up to the root call of minimax: the candidate lists are
\* computed, capped and handed over with the AI's depth and branch factor.
GetMove ==
    /\ pc = "idle" /\ ~win
    /\ stack' = <<RootFrame(Board)>>
    /\ pc' = "search"
    /\ entry' = Board
    /\ calls' = 0
    /\ cuts' = 0
    /\ result' = NoResult
    /\ UNCHANGED <<tiles, logic, win, mark, depth, branch_factor, minimax_stack_depth>>

\* A minimax call returns r to its caller: the root call returns into
\* get_move, which resets the counter and returns the move; a deeper call
\* returns into the loop body of the ply above.
Deliver(r) ==
    IF Len(stack) = 1
    THEN /\ stack' = <<>>
         /\ pc' = "done"
         /\ result' = r
         /\ minimax_stack_depth' = 0
    ELSE /\ stack' = [SubSeq(stack, 1, Len(stack) - 1)
                        EXCEPT ![Len(stack) - 1].pc = "back",
                               ![Len(stack) - 1].ret = r[2],
                               ![Len(stack) - 1].sub_entry = Top.entry]
         /\ pc' = pc
         /\ result' = result
         /\ minimax_stack_depth' = minimax_stack_depth

\* The loop body after nxt_ply_score is known: the choice is recorded, and
\* the cutoff test either ends the loop or updates the running bound.
Scored(f, move, score) ==
    LET cut == Cutoff(f.maximizer, score, f.max_worst, f.min_worst)
    IN  [f EXCEPT !.choices = Append(f.choices, <<move, score>>),
                  !.i = f.i + 1,
                  !.brk = cut,
                  !.max_worst = IF cut THEN f.max_worst
                                ELSE NewMaxWorst(f.maximizer, score, f.max_worst),
                  !.min_worst = IF cut THEN f.min_worst
                                ELSE NewMinWorst(f.maximizer, score, f.min_worst),
                  !.pc = "loop"]

\* AfterWin without the undo_change of the win branch.
AfterWinKept(ub, orig_states, move) == [tiles |-> ub.tiles, logic |-> ub.logic]

\* The board after the win branch has undone its move.
AfterWin(ub, orig_states, move) == undo_change(ub.tiles, ub.logic, orig_states, move)

\* The board after the loop body has undone its move.
AfterUndo(t, l, orig_states, move) == undo_change(t, l, orig_states, move)

\* The next candidate completes a win: it is undone and returned at once.
ReturnWin ==
    /\ Searching /\ HasNext(Top)
    /\ LET move == NextMove(Top)
           ub == update_board(tiles, logic, move)
       IN  /\ check_win(ub.tiles, move)
           /\ SetBoard(AfterWin(ub, ub.orig_states, move))
           /\ Deliver(<<move, WinScore(Top.maximizer)>>)
    /\ UNCHANGED <<win, mark, depth, branch_factor, entry, calls, cuts>>

\* depth == 1: the position after the candidate is scored statically, the
\* move is undone and the cutoff test runs.
EvalStatic ==
    /\ Searching /\ HasNext(Top) /\ Top.depth = 1
    /\ LET move == NextMove(Top)
           ub == update_board(tiles, logic, move)
           nxt_ply_score == score_board(ub.logic)
       IN  /\ ~check_win(ub.tiles, move)
           /\ SetBoard(AfterUndo(ub.tiles, ub.logic, ub.orig_states, move))
           /\ stack' = [stack EXCEPT ![Len(stack)] = Scored(Top, move, nxt_ply_score)]
           /\ cuts' = IF Scored(Top, move, nxt_ply_score).brk THEN cuts + 1 ELSE cuts
    /\ minimax_stack_depth' = minimax_stack_depth + 1
    /\ UNCHANGED <<win, mark, depth, branch_factor, pc, result, entry, calls>>

\* depth != 1: the candidate is applied, the lists of the next ply are built
\* and minimax is called for the other side.
Recurse ==
    /\ Searching /\ HasNext(Top) /\ Top.depth # 1 /\ Len(stack) < MaxStack
    /\ LET f == Top
           move == NextMove(f)
           nxt_mark == Other(move[3])
           ub == update_board(tiles, logic, move)
           new_poss_moves == NextPossMoves(ub.logic, ub.orig_states, f.poss_x, f.poss_o,
                                           move, nxt_mark)
           callee == NewFrame(~f.maximizer, RecursiveDepth(f.depth),
                              RecursiveBranchFactor(f.branch_factor), new_poss_moves,
                              f.max_worst, f.min_worst, [tiles |-> ub.tiles, logic |-> ub.logic])
       IN  /\ ~check_win(ub.tiles, move)
           /\ SetBoard(ub)
           /\ stack' = Append([stack EXCEPT ![Len(stack)].pc = "call",
                                            ![Len(stack)].move = move,
                                            ![Len(stack)].orig_states = ub.orig_states],
                              callee)
    /\ minimax_stack_depth' = minimax_stack_depth + 1
    /\ calls' = calls + 1
    /\ UNCHANGED <<win, mark, depth, branch_factor, pc, result, entry, cuts>>

\* The recursive call has returned: the choice is recorded, the move undone
\* and the cutoff test runs.
Resume ==
    /\ Searching /\ Top.pc = "back"
    /\ SetBoard(AfterUndo(tiles, logic, Top.orig_states, Top.move))
    /\ stack' = [stack EXCEPT ![Len(stack)] = Scored(Top, Top.move, Top.ret)]
    /\ cuts' = IF Scored(Top, Top.move, Top.ret).brk THEN cuts + 1 ELSE cuts
    /\ UNCHANGED <<win, mark, depth, branch_factor, minimax_stack_depth, pc, result,
                   entry, calls>>

\* The loop is over with at least one choice: the extremal one is returned.
ReturnBest ==
    /\ Searching /\ Top.pc = "loop" /\ ~HasNext(Top) /\ Top.choices # <<>>
    /\ Deliver(Extremal(Top.maximizer, Top.choices))
    /\ UNCHANGED <<tiles, logic, win, mark, depth, branch_factor, entry, calls, cuts>>

\* The loop is over with no choice: max()/min() of an empty list raises
\* ValueError, which no caller catches; every pending call is abandoned with
\* its move still on the board.
RaiseEmpty ==
    /\ Searching /\ Top.pc = "loop" /\ ~HasNext(Top) /\ Top.choices = <<>>
    /\ pc' = "raised"
    /\ stack' = <<>>
    /\ UNCHANGED <<tiles, logic, win, mark, depth, branch_factor, minimax_stack_depth,
                   result, entry, calls, cuts>>

Next ==
    \/ PlaceMark
    \/ GetMove
    \/ ReturnWin
    \/ EvalStatic
    \/ Recurse
    \/ Resume
    \/ ReturnBest
    \/ RaiseEmpty

Spec == Init /\ [][Next]_vars

SpecMisconfigured == InitMisconfigured /\ [][Next]_vars

\* ------------------------------------------------------------------ the search as a function

\* minimax as a function of its arguments, for a board that every ply leaves
\* as it found it.  With cutoff = FALSE the two break statements are taken
\* out.  ok = FALSE stands for the ValueError of an empty choices list.
RECURSIVE MinimaxLoop(_, _, _, _)
RECURSIVE Minimax(_, _, _, _, _, _, _, _, _)
Minimax(t, l, maximizer, d, bf, poss_moves, max_worst, min_worst, cutoff) ==
    LET f == NewFrame(maximizer, d, bf, poss_moves, max_worst, min_worst,
                      [tiles |-> t, logic |-> l])
    IN  MinimaxLoop(t, l, f, cutoff)

MinimaxLoop(t, l, f, cutoff) ==
    IF f.brk \/ f.i >= Len(f.poss)
    THEN IF f.choices = <<>> THEN [ok |-> FALSE, move |-> NoMove, score |-> 0]
         ELSE LET r == Extremal(f.maximizer, f.choices)
              IN  [ok |-> TRUE, move |-> r[1], score |-> r[2]]
    ELSE LET move == NextMove(f)
             nxt_mark == Other(move[3])
             ub == update_board(t, l, move)
         IN  IF check_win(ub.tiles, move)
             THEN [ok |-> TRUE, move |-> move, score |-> WinScore(f.maximizer)]
             ELSE LET sub == IF f.depth = 1
                             THEN [ok |-> TRUE, move |-> move, score |-> score_board(ub.logic)]
                             ELSE Minimax(ub.tiles, ub.logic, ~f.maximizer,
                                          RecursiveDepth(f.depth),
                                          RecursiveBranchFactor(f.branch_factor),
                                          NextPossMoves(ub.logic, ub.orig_states, f.poss_x,
                                                        f.poss_o, move, nxt_mark),
                                          f.max_worst, f.min_worst, cutoff)
                      g == Scored(f, move, sub.score)
                  IN  IF ~sub.ok THEN sub
                      ELSE MinimaxLoop(t, l, [g EXCEPT !.brk = cutoff /\ g.brk,
                                                       !.max_worst = NewMaxWorst(f.maximizer, sub.score, f.max_worst),
                                                       !.min_worst = NewMinWorst(f.maximizer, sub.score, f.min_worst)],
                                       cutoff)

\* The root call of get_move on board b as a function.
RootSearch(b, cutoff) ==
    LET f == RootFrame(b)
    IN  Minimax(b.tiles, b.logic, f.maximizer, f.depth, f.branch_factor, f.poss_moves,
                f.max_worst, f.min_worst, cutoff)

\* ------------------------------------------------------------------ properties

Frames == 1..Len(stack)
Range(seq) == {seq[i] : i \in 1..Len(seq)}
Count(seq, c) == Cardinality({i \in 1..Len(seq) : seq[i] = c})
Cells(seq) == {CellOf(seq[i][2]) : i \in 1..Len(seq)}

\* Candidates whose move the loop of activation f has applied so far.
Applied(f) == f.i + (IF f.pc \in {"call", "back"} THEN 1 ELSE 0)

\* The move ordering of the root call of the search on the entry board.
RootPoss == RootFrame(entry).poss

\* Playing mv on board b completes a win.
WinsOn(b, mv) == check_win(update_board(b.tiles, b.logic, mv).tiles, mv)

\* The static score of the position after mv is played on board b.
StaticAfter(b, mv) == score_board(update_board(b.tiles, b.logic, mv).logic)

\* The side to move has a legal move on board b that completes a win.
HasWinningMove(b) ==
    \E p \in Pos : check_legal(b.tiles, <<p[1], p[2], mark>>) /\ WinsOn(b, <<p[1], p[2], mark>>)

RootWins == {i \in 1..Len(RootPoss) : WinsOn(entry, RootPoss[i][2])}
FirstRootWin == CHOOSE i \in RootWins : \A j \in RootWins : i <= j

\* C1: whenever a minimax call has returned (the root call into get_move, a
\* nested call into the loop body above) the board is the board the call was
\* entered with, and between two candidates of a loop the board is the board
\* the loop started from: every applied move has been undone.
C1_BoardRestored ==
    /\ pc = "done" => Board = entry
    /\ (Searching /\ Top.pc = "loop") => Board = Top.entry
    /\ (Searching /\ Top.pc = "back") => Board = Top.sub_entry

\* A search that nested calls and left a loop by a cutoff has returned.
C1_Witness == pc = "done" /\ calls > 0 /\ cuts > 0

\* C2 as stated: on a board where the side to move has a legal winning move,
\* the search returns a winning move with the mover's infinite score and has
\* made no recursive call.
C2_Original ==
    (pc \in {"done", "raised"} /\ HasWinningMove(entry)) =>
        /\ pc = "done"
        /\ WinsOn(entry, result[1])
        /\ result[2] = (IF mark = "O" THEN Inf ELSE 0 - Inf)
        /\ calls = 0

\* C2 amended: when the root ordering holds a move that completes a win, a
\* search that returns gives the first such move of the ordering with the
\* mover's infinite score, and no call is ever nested beneath a move that
\* completes a win.
C2_FirstWinReturned ==
    /\ (pc = "done" /\ RootWins # {}) =>
           result = <<RootPoss[FirstRootWin][2], IF mark = "O" THEN Inf ELSE 0 - Inf>>
    /\ \A k \in Frames :
           stack[k].pc \in {"call", "back"} => ~WinsOn(stack[k].entry, stack[k].move)

\* A search of depth >= 2 returned a winning move that was not first in the
\* ordering, after recursing into the moves before it.
C2_Witness ==
    /\ pc = "done" /\ depth >= 2 /\ calls > 0
    /\ RootWins # {} /\ FirstRootWin > 1

\* C3 as stated: no activation of minimax applies more candidates than the
\* branch factor get_move was given.
C3_Claim == \A k \in Frames : Applied(stack[k]) <= branch_factor

\* C4: the score a returned search delivers is the score the same search
\* delivers with the two break statements taken out.
C4_PruningKeepsScore ==
    pc = "done" =>
        LET exhaustive == RootSearch(entry, FALSE)
        IN  exhaustive.ok => exhaustive.score = result[2]

\* A search of which some loop was cut off has returned.
C4_Witness == pc = "done" /\ cuts > 0 /\ RootSearch(entry, FALSE).ok

\* C5 as stated: a call whose two candidate lists are empty returns the static
\* score of the current position and leaves the board alone.
C5_Claim ==
    [][(Searching /\ Top.pc = "loop" /\ Top.poss_x = <<>> /\ Top.poss_o = <<>>) =>
          /\ pc' # "raised"
          /\ tiles' = tiles /\ logic' = logic
          /\ IF Len(stack) = 1
             THEN pc' = "done" /\ result'[2] = score_board(logic)
             ELSE /\ Len(stack') = Len(stack) - 1
                  /\ stack'[Len(stack) - 1].ret = score_board(logic)]_vars

\* C6 as stated: with a depth or branch factor that is not positive the search
\* applies no move to the board and returns no move.
C6_Claim ==
    (depth <= 0 \/ branch_factor <= 0) => (minimax_stack_depth = 0 /\ pc # "done")

\* C7: a search of depth 1 makes no recursive call, and when no candidate of
\* the root ordering completes a win the score it returns is the largest
\* (maximizer) or smallest (minimizer) static score of the positions after
\* the candidates.
C7_DepthOneIsStatic ==
    depth = 1 =>
        /\ calls = 0
        /\ (pc = "done" /\ RootWins = {}) =>
               LET scores == {StaticAfter(entry, RootPoss[i][2]) : i \in 1..Len(RootPoss)}
               IN  /\ result[2] \in scores
                   /\ \A v \in scores : IF mark = "O" THEN v <= result[2] ELSE v >= result[2]

\* A depth-1 search over candidates of different static scores has returned.
C7_Witness ==
    /\ pc = "done" /\ depth = 1 /\ RootWins = {}
    /\ Cardinality({StaticAfter(entry, RootPoss[i][2]) : i \in 1..Len(RootPoss)}) > 1

ClaimedOrdering(maximizer, poss_x, poss_o) ==
    IF maximizer
    THEN PyFrom(poss_o, Len(poss_o) \div 2) \o PyTo(poss_x, Len(poss_x) \div 2)
         \o PyTo(poss_o, Len(poss_o) \div 2) \o PyFrom(poss_x, Len(poss_x) \div 2)
    ELSE PyTo(poss_x, Len(poss_x) \div 2) \o PyFrom(poss_o, Len(poss_o) \div 2)
         \o PyFrom(poss_x, Len(poss_x) \div 2) \o PyTo(poss_o, Len(poss_o) \div 2)

\* C9 as stated: the exploration order of every activation is the described
\* interleaving, so each entry of the two capped lists occurs in it as often
\* as in the lists, none dropped and none repeated.
C9_Claim ==
    \A k \in Frames :
        LET f == stack[k]
        IN  /\ f.poss = ClaimedOrdering(f.maximizer, f.poss_x, f.poss_o)
            /\ \A c \in Range(f.poss_x) \cup Range(f.poss_o) \cup Range(f.poss) :
                   Count(f.poss, c) = Count(f.poss_x, c) + Count(f.poss_o, c)

====
